---- MODULE Spec2Model ----
(***************************************************************************)
(* scripts/remove-inline-styles.py: a fixed, ordered table of              *)
(* (pattern, replacement) rules applied with re.sub to the text of one     *)
(* HTML file, and the command line glue that reads the file, rewrites it   *)
(* and writes it back in place.                                            *)
(*                                                                         *)
(* Text is modelled character for character as TLA+ strings: Len, SubSeq   *)
(* and \o act on the characters of a string.                               *)
(***************************************************************************)
EXTENDS Integers, Sequences, FiniteSets

(***************************************************************************)
(* The rule table.  A pattern of the table is a regular expression whose   *)
(* every element is a literal character (the backslashes only escape the   *)
(* '.', '(' and ')' of the CSS text), except the swatch rule, which holds  *)
(* one capturing group (#[0-9A-F]{6}) between two literal parts and whose  *)
(* replacement template refers to the group as \1.                         *)
(*   pre, post : the literal text before and after the group               *)
(*   group     : TRUE iff the pattern holds the capturing group            *)
(*   rep, fin  : the replacement text before and after \1                  *)
(***************************************************************************)
Literal(pattern, replacement) ==
  [pre |-> pattern, group |-> FALSE, post |-> "", rep |-> replacement, fin |-> ""]

Group(before, after, replacement, rest) ==
  [pre |-> before, group |-> TRUE, post |-> after, rep |-> replacement, fin |-> rest]

replacements ==
  <<
    \* line 12
    Literal(" style=\"margin-top: 0.5em;\"",
          " class=\"mt-sm\""),
    \* line 13
    Literal(" style=\"margin-top: 1em;\"",
          " class=\"mt-md\""),
    \* line 14
    Literal(" style=\"margin-top: 1.5em;\"",
          " class=\"mt-lg\""),
    \* line 15
    Literal(" style=\"margin-top: 2em;\"",
          " class=\"mt-xl\""),
    \* line 16
    Literal(" style=\"margin-bottom: 0.5em;\"",
          " class=\"mb-sm\""),
    \* line 17
    Literal(" style=\"margin-bottom: 1em;\"",
          " class=\"mb-md\""),
    \* line 18
    Literal(" style=\"margin-bottom: 1.5em;\"",
          " class=\"mb-lg\""),
    \* line 19
    Literal(" style=\"margin-left: 0.5em;\"",
          " class=\"ml-sm\""),
    \* line 20
    Literal(" style=\"width: 100%;\"",
          " class=\"w-full\""),
    \* line 23
    Literal(" style=\"flex-wrap: wrap;\"",
          " class=\"flex--wrap\""),
    \* line 24
    Literal(" style=\"display: grid; grid-template-columns: repeat(3, 1fr); gap: 1em;\"",
          ""),
    \* line 25
    Literal(" style=\"display: block; cursor: pointer;\"",
          ""),
    \* line 26
    Literal(" style=\"position: absolute; opacity: 0; pointer-events: none;\"",
          " class=\"preset-card__input\""),
    \* line 27
    Literal(" style=\"display: flex; flex-direction: column; gap: 1.5em;\"",
          ""),
    \* line 30
    Literal(" style=\"color: var(--text-secondary);\"",
          " class=\"text-secondary\""),
    \* line 31
    Literal(" style=\"color: var(--text-secondary); margin-bottom: 1.5em;\"",
          " class=\"text-secondary mb-lg\""),
    \* line 32
    Literal(" style=\"margin-bottom: 1em; color: var(--text-secondary);\"",
          " class=\"mb-md text-secondary\""),
    \* line 33
    Literal(" style=\"color: var(--text-secondary); font-size: 0.875em; margin: 0;\"",
          " class=\"slider__description\""),
    \* line 34
    Literal(" style=\"margin-bottom: 0.75em;\"",
          " class=\"slider__header\""),
    \* line 35
    Literal(" style=\"margin-top: 0.75em;\"",
          " class=\"mt-md\""),
    \* line 36
    Literal(" style=\"margin-bottom: 0.25em;\"",
          ""),
    \* line 39
    Literal(" style=\"background: var(--surface-light); border: 2px solid var(--border); border-radius: var(--radius-md); padding: 1.25em; text-align: center; transition: all var(--transition-base); box-shadow: var(--shadow-sm);\"",
          ""),
    \* line 40
    Group(" style=\"display: inline-block; width: 3em; height: 3em; background: ", "; border: 2px solid var(--border); border-radius: var(--radius-sm); margin-bottom: 0.75em; box-shadow: var(--shadow-sm);\"",
          " class=\"preset-card__swatch\" style=\"background: ", ";\""),
    \* line 41
    Literal(" style=\"font-weight: 600; color: var(--text-heading); margin-bottom: 0.25em;\"",
          " class=\"preset-card__title\""),
    \* line 42
    Literal(" style=\"font-size: 0.875em; font-family: monospace; color: var(--text-secondary);\"",
          " class=\"preset-card__value\""),
    \* line 45
    Literal(" style=\"background: var(--surface); border: 2px solid var(--border); border-radius: var(--radius-lg); padding: 2em; box-shadow: var(--shadow-md);\"",
          ""),
    \* line 46
    Literal(" style=\"border: none; padding: 0; margin: 0; margin-top: 2em;\"",
          " class=\"mt-xl\""),
    \* line 47
    Literal(" style=\"font-weight: 600; margin-bottom: 1em; color: var(--text-heading); font-size: 1.125em;\"",
          ""),
    \* line 48
    Literal(" style=\"margin-top: 2em; margin-bottom: 1em; font-size: 1.25em;\"",
          " class=\"mt-xl mb-md\""),
    \* line 49
    Literal(" style=\"font-size: 1.25em; margin-bottom: 0.5em;\"",
          " class=\"mb-sm\""),
    \* line 50
    Literal(" style=\"color: red;\"",
          " class=\"text-error\""),
    \* line 51
    Literal(" style=\"color: var(--text-secondary); margin-top: 0.5em;\"",
          " class=\"text-secondary mt-sm\"")
  >>

RuleIds == 1..Len(replacements)

\* [0-9A-F]
HexDigit == {"0", "1", "2", "3", "4", "5", "6", "7", "8", "9",
             "A", "B", "C", "D", "E", "F"}

\* the characters the group (#[0-9A-F]{6}) consumes: '#' and {6} digits
GroupLen == 7

\* the number of characters a match of the rule's pattern spans
MatchLen(rule) ==
  Len(rule.pre) + (IF rule.group THEN GroupLen + Len(rule.post) ELSE 0)

\* the group (#[0-9A-F]{6}) matches the GroupLen characters of s from k on
GroupAt(s, k) ==
  /\ k + GroupLen - 1 <= Len(s)
  /\ SubSeq(s, k, k) = "#"
  /\ \A d \in 1..(GroupLen - 1) : SubSeq(s, k + d, k + d) \in HexDigit

\* faulty variant: the closing quote of the pattern is not required
MatchAt_unclosed(rule, s, i) ==
  /\ ~rule.group
  /\ i >= 1
  /\ i + Len(rule.pre) - 2 <= Len(s)
  /\ SubSeq(s, i, i + Len(rule.pre) - 2) = SubSeq(rule.pre, 1, Len(rule.pre) - 1)

\* the rule's pattern matches s at position i (case-sensitive, exact)
MatchAt(rule, s, i) ==
  /\ i >= 1
  /\ i + MatchLen(rule) - 1 <= Len(s)
  /\ SubSeq(s, i, i + Len(rule.pre) - 1) = rule.pre
  /\ rule.group =>
       /\ GroupAt(s, i + Len(rule.pre))
       /\ SubSeq(s, i + Len(rule.pre) + GroupLen, i + MatchLen(rule) - 1)
            = rule.post

\* faulty variant: the template loses its reference to the group
Expand_nogroup(rule, s, i) == rule.rep \o rule.fin

\* faulty variant: the class is added and the matched style attribute is kept
Expand_keep(rule, s, i) ==
  rule.rep \o SubSeq(s, i, i + MatchLen(rule) - 1)

\* the replacement template expanded for the match at position i: the text
\* before \1, the text the group matched, the text after \1
Expand(rule, s, i) ==
  IF rule.group
    THEN rule.rep
           \o SubSeq(s, i + Len(rule.pre), i + Len(rule.pre) + GroupLen - 1)
           \o rule.fin
    ELSE rule.rep

\* the position of the leftmost match of the rule's pattern in s at or after
\* position i, or 0 when there is none
NextMatch(rule, s, i) ==
  LET found == {j \in i..Len(s) : MatchAt(rule, s, j)}
  IN  IF found = {} THEN 0
      ELSE CHOOSE j \in found : \A k \in found : j <= k

\* faulty variant: only the first occurrence is replaced (count = 1)
Scan_first(rule, s, i, out) ==
  LET j == NextMatch(rule, s, i)
  IN  IF j = 0 THEN out \o SubSeq(s, i, Len(s))
      ELSE out \o SubSeq(s, i, j - 1) \o Expand(rule, s, j)
               \o SubSeq(s, j + MatchLen(rule), Len(s))

\* faulty variant: the text after the last match is not copied
Scan_notail(rule, s, i, out) ==
  LET found == {j \in i..Len(s) : MatchAt(rule, s, j)}
  IN  IF found = {} THEN out
      ELSE LET j == CHOOSE n \in found : \A k \in found : k <= n
           IN  out \o SubSeq(s, i, j - 1) \o Expand(rule, s, j)

\* re.sub(pattern, replacement, content): scan from the left; copy the text
\* up to the leftmost match, emit the expanded replacement and go on after
\* the match (the replacement is not scanned again); copy the rest.
RECURSIVE Scan(_, _, _, _)
Scan(rule, s, i, out) ==
  LET j == NextMatch(rule, s, i)
  IN  IF j = 0 THEN out \o SubSeq(s, i, Len(s))
      ELSE Scan(rule, s, j + MatchLen(rule),
                out \o SubSeq(s, i, j - 1) \o Expand(rule, s, j))

re_sub(rule, content) == Scan(rule, content, 1, "")

\* the table walked from its last rule to its first
RECURSIVE ApplyFrom_reversed(_, _)
ApplyFrom_reversed(k, content) ==
  IF k > Len(replacements) \/ content = "" THEN content
  ELSE ApplyFrom_reversed(k + 1,
         re_sub(replacements[Len(replacements) + 1 - k], content))

\* faulty variant: the loop starts at the second rule
RECURSIVE ApplyFrom_skipfirst(_, _)
ApplyFrom_skipfirst(k, content) ==
  IF k + 1 > Len(replacements) \/ content = "" THEN content
  ELSE ApplyFrom_skipfirst(k + 1, re_sub(replacements[k + 1], content))

\* for pattern, replacement in replacements:
\*     content = re.sub(pattern, replacement, content)
\* from rule k on.  No rule changes the empty text; testing for it also has
\* each intermediate text evaluated before the next rule is applied.
RECURSIVE ApplyFrom(_, _)
ApplyFrom(k, content) ==
  IF k > Len(replacements) \/ content = "" THEN content
  ELSE ApplyFrom(k + 1, re_sub(replacements[k], content))

remove_inline_styles(content) == ApplyFrom(1, content)

(***************************************************************************)
(* The texts the rules are written for.                                    *)
(***************************************************************************)
\* every pattern opens the attribute with these characters ...
AttrOpen == " style=\""

\* ... and closes it with this one
Quote == "\""

\* the attribute fragment rule r matches: its literal pattern text, with the
\* colour code hex in the place of the group
Fragment(r, hex) ==
  LET rule == replacements[r]
  IN  IF rule.group THEN rule.pre \o "#" \o hex \o rule.post ELSE rule.pre

\* what rule r puts in the place of that fragment
Converted(r, hex) ==
  LET rule == replacements[r]
  IN  IF rule.group THEN rule.rep \o "#" \o hex \o rule.fin ELSE rule.rep

\* the CSS text between the quotes of the literal rule r
Css(r) ==
  LET p == replacements[r].pre
  IN  SubSeq(p, Len(AttrOpen) + 1, Len(p) - 1)

LiteralRules == {r \in RuleIds : ~replacements[r].group}
GroupRules == {r \in RuleIds : replacements[r].group}

\* the rules that remove the attribute outright
EmptyRules == {r \in LiteralRules : replacements[r].rep = ""}

\* the positions and rules of all matches in s
Matches(s) ==
  {m \in RuleIds \X (1..Len(s)) : MatchAt(replacements[m[1]], s, m[2])}

\* s holds a match of some rule
HasMatch(s) == \E r \in RuleIds : NextMatch(replacements[r], s, 1) # 0

(***************************************************************************)
(* Inputs.  An input text is a sequence of pieces; a piece records the     *)
(* text it contributes and the text the rewrite is to leave in its place.  *)
(***************************************************************************)
Piece(kind, r, txt, to) == [kind |-> kind, rule |-> r, text |-> txt, becomes |-> to]

\* colour codes for the swatch rule
HexCodes == {"AABBCC", "000000", "FFFFFF", "09AF5E"}

\* every rule with every colour code it can be written with
RuleCases ==
  {c \in RuleIds \X (HexCodes \cup {""}) : replacements[c[1]].group <=> c[2] # ""}

FragmentPiece(r, hex) ==
  Piece("fragment", r, Fragment(r, hex), Converted(r, hex))

ConvertedPiece(r, hex) ==
  Piece("converted", 0, Converted(r, hex), Converted(r, hex))

Filler(txt) == Piece("filler", 0, txt, txt)

Raw(txt) == Piece("raw", 0, txt, txt)

\* the rules whose fragments are combined with one another: the rules of the
\* lines 17, 30, 31 and 32, which share CSS text, the rule of line 25, which
\* removes its attribute, and the swatch rule of line 40
CombinedCases ==
  {<<6, "">>, <<12, "">>, <<15, "">>, <<16, "">>, <<17, "">>, <<23, "AABBCC">>}

\* the replacements that are combined with one another: classes, the empty
\* replacement and the swatch class with two colour codes
ConvertedCases ==
  {<<2, "">>, <<12, "">>, <<13, "">>, <<15, "">>, <<16, "">>, <<19, "">>,
   <<23, "AABBCC">>, <<23, "000000">>, <<29, "">>, <<31, "">>}

\* text without a double quote
Fillers == {"<div", ">", "color: red;"}

\* the two ends of an attribute
RawTexts == {AttrOpen, Quote}

\* attributes that differ from a known one in the case of a letter, in a
\* space, in the quotes or in the digits of the colour code, and attributes
\* no rule is written for
NearMisses ==
  {Fragment(23, "aabbcc"), Fragment(23, "AABBC"), Fragment(23, "GGGGGG"),
   " STYLE=\"color: red;\"", " style=\"Color: red;\"",
   " style=\"color:red;\"", " style=\"margin-top: 1em;  \"",
   " style=\"margin-top: 1.5 em;\"", " style=\"margin-top: 0x5em;\"",
   " style='margin-top: 1em;'", "style=\"margin-top: 1em;\"",
   " style=\"margin-top: 3em;\"", " style=\"background: #AABBCC;\""}

Tags == {"<div", "<p", "<span"}
Closings == {">", ">Error</span>"}

\* <tag style="...">: one fragment in a tag
MinimalInputs ==
  {<<Filler(t), FragmentPiece(c[1], c[2]), Filler(e)>> :
     t \in Tags, c \in RuleCases, e \in Closings}

\* <tag ...>: one attribute no rule is written for in a tag
UnmatchedInputs ==
  {<<Filler(t), Raw(n), Filler(e)>> : t \in Tags, n \in NearMisses, e \in Closings}

\*  style=" style="..."X": the fragment of rule m inside an attribute whose
\* remaining text X is the CSS text of the literal rule x
NestedInputs ==
  {<<Raw(AttrOpen), FragmentPiece(c[1], c[2]),
     Piece("css", x, Css(x), Css(x)), Raw(Quote)>> :
     c \in (RuleIds \X {"", "AABBCC"}) \cap RuleCases, x \in LiteralRules}

RECURSIVE Join(_, _)
Join(ps, field) ==
  IF ps = <<>> THEN "" ELSE Join(SubSeq(ps, 1, Len(ps) - 1), field) \o ps[Len(ps)][field]

\* the input text and the text expected of the rewrite
TextOf(ps) == Join(ps, "text")
Expected(ps) == Join(ps, "becomes")

Kinds(ps) == {ps[n].kind : n \in 1..Len(ps)}

\* the rule and position of every fragment piece in the input text
FragmentStarts(ps) ==
  {<<ps[n].rule, Len(TextOf(SubSeq(ps, 1, n - 1))) + 1>> :
     n \in {k \in 1..Len(ps) : ps[k].kind = "fragment"}}

\* the most pieces an input is put together from
MaxPieces == 2

VARIABLES
  pieces,           \* the pieces the input was put together from
  input,            \* the text handed to remove_inline_styles
  output,           \* what remove_inline_styles returned for input
  again,            \* what remove_inline_styles returned for output
  phase,            \* "build", "called", "again"
  argv,             \* sys.argv
  pc,               \* the statement __main__ is at
  original,         \* the content of each file when the program starts
  fs,               \* the content of each file
  perm,             \* what the file system allows on the files
  content,          \* __main__'s content
  updated_content,  \* __main__'s updated_content
  stdout,           \* the lines printed
  stderr,           \* the exception the interpreter reported, if any
  status,           \* the exit status, -1 while running
  trace             \* the file operations and prints done, in order

fnvars == <<pieces, input, output, again, phase>>
mainvars == <<argv, pc, original, fs, perm, content, updated_content, stdout, stderr,
              status, trace>>
vars == <<fnvars, mainvars>>

(***************************************************************************)
(* remove_inline_styles called on an input, and once more on its result.   *)
(***************************************************************************)
\* sys.argv[0] and the files there are
Program == "remove-inline-styles.py"
FileNames == {"a.html", "b.html"}

MainIdle ==
  /\ argv = <<Program>>
  /\ pc = "idle"
  /\ original = [f \in FileNames |-> ""]
  /\ fs = original
  /\ perm = "rw"
  /\ content = ""
  /\ updated_content = ""
  /\ stdout = <<>>
  /\ stderr = <<>>
  /\ status = -1
  /\ trace = <<>>

InitInput(inputs) ==
  /\ pieces \in inputs
  /\ input = TextOf(pieces)
  /\ output = ""
  /\ again = ""
  /\ phase = "build"
  /\ MainIdle

Extend(p) ==
  /\ phase = "build"
  /\ Len(pieces) < MaxPieces
  /\ pieces' = Append(pieces, p)
  /\ input' = input \o p.text
  /\ UNCHANGED <<output, again, phase, mainvars>>

AppendFragment == \E c \in CombinedCases : Extend(FragmentPiece(c[1], c[2]))

AppendFiller == \E t \in Fillers : Extend(Filler(t))

AppendRaw == \E t \in RawTexts : Extend(Raw(t))

AppendConverted == \E c \in ConvertedCases : Extend(ConvertedPiece(c[1], c[2]))

Call ==
  /\ phase = "build"
  /\ output' = remove_inline_styles(input)
  /\ phase' = "called"
  /\ UNCHANGED <<pieces, input, again, mainvars>>

CallAgain ==
  /\ phase = "called"
  /\ again' = remove_inline_styles(output)
  /\ phase' = "again"
  /\ UNCHANGED <<pieces, input, output, mainvars>>

NextCalls == Call \/ CallAgain

\* one attribute in a tag
InitMinimal == InitInput(MinimalInputs)
SpecMinimal == InitMinimal /\ [][NextCalls]_vars

\* an attribute inside an attribute
InitNested == InitInput(NestedInputs)
SpecNested == InitNested /\ [][NextCalls]_vars

\* fragments, filler and parts of attributes in any order, and attributes
\* that come close to a known one
NextPieces == AppendFragment \/ AppendFiller \/ AppendRaw \/ Call \/ CallAgain
SpecPieces == InitInput({<<>>} \cup UnmatchedInputs) /\ [][NextPieces]_vars

\* already converted text: nothing but replacements, or the result of
\* rewriting one attribute in a tag
NextConverted == AppendConverted \/ Call \/ CallAgain
SpecConverted == InitInput({<<>>} \cup MinimalInputs) /\ [][NextConverted]_vars

(***************************************************************************)
(* __main__: python remove-inline-styles.py <html-file>                    *)
(***************************************************************************)

\* the most arguments given after the program's name
MaxArgs == 2

Usage == "Usage: python remove-inline-styles.py <html-file>"
Updated(filename) == "Updated " \o filename

FileContents ==
  {"<p>plain</p>",
   "<div style=\"margin-top: 1em;\">",
   " style=\"display: block; cursor: pointer;\"",
   "<p style=\"color: var(--text-secondary); margin-bottom: 1.5em;\">x</p>"}

\* "rw": readable and writable; "readonly": open(filename, 'w') fails;
\* "unreadable", "missing": open(filename, 'r') fails
Perms == {"rw", "readonly", "unreadable", "missing"}

RECURSIVE ArgLists(_)
ArgLists(n) ==
  IF n = 0 THEN {<<>>}
  ELSE {Append(a, f) : a \in ArgLists(n - 1), f \in FileNames}

FnIdle ==
  /\ pieces = <<>>
  /\ input = ""
  /\ output = ""
  /\ again = ""
  /\ phase = "idle"

Init ==
  /\ \E n \in 0..MaxArgs : \E a \in ArgLists(n) : argv = <<Program>> \o a
  /\ \E c \in FileContents : original = [f \in FileNames |-> c]
  /\ fs = original
  /\ perm \in Perms
  /\ pc = "start"
  /\ content = ""
  /\ updated_content = ""
  /\ stdout = <<>>
  /\ stderr = <<>>
  /\ status = -1
  /\ trace = <<>>
  /\ FnIdle

\* an uncaught exception: the interpreter reports it and exits with status 1
Raise(exception, at) ==
  /\ stderr' = Append(stderr, exception)
  /\ status' = 1
  /\ pc' = "exit"
  /\ trace' = Append(trace, at)

\* faulty variant: too many arguments are not refused
CheckArgs_atleast ==
  /\ pc = "start"
  /\ IF Len(argv) < 2
       THEN /\ stdout' = Append(stdout, Usage)
            /\ status' = 1
            /\ pc' = "exit"
       ELSE /\ pc' = "open_r"
            /\ UNCHANGED <<stdout, status>>
  /\ UNCHANGED <<argv, original, fs, perm, content, updated_content, stderr, trace, fnvars>>

\* if len(sys.argv) != 2: print usage; sys.exit(1)
CheckArgs ==
  /\ pc = "start"
  /\ IF Len(argv) # 2
       THEN /\ stdout' = Append(stdout, Usage)
            /\ status' = 1
            /\ pc' = "exit"
       ELSE /\ pc' = "open_r"
            /\ UNCHANGED <<stdout, status>>
  /\ UNCHANGED <<argv, original, fs, perm, content, updated_content, stderr, trace, fnvars>>

\* filename = sys.argv[1]
filename == argv[2]

\* with open(filename, 'r') as f:
OpenRead ==
  /\ pc = "open_r"
  /\ perm \in {"rw", "readonly"}
  /\ pc' = "read"
  /\ trace' = Append(trace, "open_r")
  /\ UNCHANGED <<argv, original, fs, perm, content, updated_content, stdout, stderr, status, fnvars>>

OpenReadFails ==
  /\ pc = "open_r"
  /\ perm \in {"unreadable", "missing"}
  /\ Raise(IF perm = "missing" THEN "FileNotFoundError" ELSE "PermissionError",
           "open_r failed")
  /\ UNCHANGED <<argv, original, fs, perm, content, updated_content, stdout, fnvars>>

\* content = f.read()
Read ==
  /\ pc = "read"
  /\ content' = fs[filename]
  /\ pc' = "transform"
  /\ trace' = Append(trace, "read")
  /\ UNCHANGED <<argv, original, fs, perm, updated_content, stdout, stderr, status, fnvars>>

ReadFails ==
  /\ pc = "read"
  /\ Raise("OSError", "read failed")
  /\ UNCHANGED <<argv, original, fs, perm, content, updated_content, stdout, fnvars>>

\* updated_content = remove_inline_styles(content)
Transform ==
  /\ pc = "transform"
  /\ updated_content' = remove_inline_styles(content)
  /\ pc' = "open_w"
  /\ UNCHANGED <<argv, original, fs, perm, content, stdout, stderr, status, trace, fnvars>>

\* with open(filename, 'w') as f: opening for writing truncates the file
OpenWrite ==
  /\ pc = "open_w"
  /\ perm = "rw"
  /\ fs' = [fs EXCEPT ![filename] = ""]
  /\ pc' = "write"
  /\ trace' = Append(trace, "open_w")
  /\ UNCHANGED <<argv, original, perm, content, updated_content, stdout, stderr, status, fnvars>>

OpenWriteFails ==
  /\ pc = "open_w"
  /\ perm # "rw"
  /\ Raise("PermissionError", "open_w failed")
  /\ UNCHANGED <<argv, original, fs, perm, content, updated_content, stdout, fnvars>>

\* faulty variant: the text read is written back
Write_unchanged ==
  /\ pc = "write"
  /\ fs' = [fs EXCEPT ![filename] = content]
  /\ pc' = "print"
  /\ trace' = Append(trace, "write")
  /\ UNCHANGED <<argv, original, perm, content, updated_content, stdout, stderr, status, fnvars>>

\* f.write(updated_content), flushed when the with block closes the file
Write ==
  /\ pc = "write"
  /\ fs' = [fs EXCEPT ![filename] = updated_content]
  /\ pc' = "print"
  /\ trace' = Append(trace, "write")
  /\ UNCHANGED <<argv, original, perm, content, updated_content, stdout, stderr, status, fnvars>>

\* the write or the flush fails (disk full, I/O error) after any number of
\* characters short of all have reached the file
WriteFails ==
  /\ pc = "write"
  /\ \E n \in 0..(Len(updated_content) - 1) :
       fs' = [fs EXCEPT ![filename] = SubSeq(updated_content, 1, n)]
  /\ Raise("OSError", "write failed")
  /\ UNCHANGED <<argv, original, perm, content, updated_content, stdout, fnvars>>

\* print(f"Updated {filename}"), and the script ends
PrintUpdated ==
  /\ pc = "print"
  /\ stdout' = Append(stdout, Updated(filename))
  /\ status' = 0
  /\ pc' = "exit"
  /\ trace' = Append(trace, "print")
  /\ UNCHANGED <<argv, original, fs, perm, content, updated_content, stderr, fnvars>>

Next ==
  \/ CheckArgs
  \/ OpenRead \/ OpenReadFails
  \/ Read \/ ReadFails
  \/ Transform
  \/ OpenWrite \/ OpenWriteFails
  \/ Write \/ WriteFails
  \/ PrintUpdated

Spec == Init /\ [][Next]_vars

(***************************************************************************)
(* Properties.                                                             *)
(***************************************************************************)
Called == phase \in {"called", "again"}

\* the input is fragments of known rules and text without a double quote
Interleaved == Kinds(pieces) \subseteq {"fragment", "filler"}

\* C1: a text in which no rule's pattern matches anywhere is returned
\* unchanged, character for character.
C1_IdentityOnUnmatched ==
  (Called /\ ~HasMatch(input)) => output = input

C1_Witness ==
  /\ phase = "called"
  /\ Len(pieces) = 3
  /\ pieces[2].text = Fragment(23, "aabbcc")
  /\ ~HasMatch(input)
  /\ output = input

\* C2: <tag style="CSS of a literal rule"> becomes <tag, the rule's
\* replacement verbatim, >; no other rule of the table matches the text
\* before or after; the three examples of the specification come out as
\* stated.
C2_MinimalFragment ==
  (Called /\ pieces[2].rule \in LiteralRules) =>
    /\ output = pieces[1].text \o replacements[pieces[2].rule].rep \o pieces[3].text
    /\ \A k \in RuleIds \ {pieces[2].rule} :
         /\ NextMatch(replacements[k], input, 1) = 0
         /\ NextMatch(replacements[k], output, 1) = 0
    /\ input = "<div style=\"margin-top: 1em;\">"
         => output = "<div class=\"mt-md\">"
    /\ input = "<span style=\"color: red;\">Error</span>"
         => output = "<span class=\"text-error\">Error</span>"
    /\ input = "<p style=\"color: var(--text-secondary); margin-bottom: 1.5em;\">"
         => output = "<p class=\"text-secondary mb-lg\">"

C2_Witness ==
  /\ phase = "called"
  /\ input = "<span style=\"color: red;\">Error</span>"
  /\ output = "<span class=\"text-error\">Error</span>"

\* the swatch attribute with colour code hex, and what is to be left of it
SwatchAttr(hex) ==
  " style=\"display: inline-block; width: 3em; height: 3em; background: #"
    \o hex
    \o "; border: 2px solid var(--border); border-radius: var(--radius-sm); margin-bottom: 0.75em; box-shadow: var(--shadow-sm);\""

SwatchClass(hex) ==
  " class=\"preset-card__swatch\" style=\"background: #" \o hex \o ";\""

\* C3: the swatch attribute with a colour code of six characters 0-9A-F
\* becomes the swatch class followed by a style attribute holding the same
\* colour code, and no rule rewrites that remaining style attribute.
C3_SwatchColour ==
  \A h \in HexCodes :
    (Called /\ pieces[2].text = SwatchAttr(h)) =>
      /\ output = pieces[1].text \o SwatchClass(h) \o pieces[3].text
      /\ ~HasMatch(output)
      /\ phase = "again" => again = output

C3_Witness ==
  /\ phase = "again"
  /\ input = "<div" \o SwatchAttr("09AF5E") \o ">"
  /\ again = "<div" \o SwatchClass("09AF5E") \o ">"

\* C4: a run with one argument naming a readable and writable file, in which
\* no file operation fails, ends with status 0, the file holding the rewrite
\* of its original content, every other file untouched and "Updated <file>"
\* the only line printed; the file was opened and read, then opened and
\* written, then the line was printed, in this order.  The line is never
\* printed before the file holds the rewritten text.
C4_SuccessfulRun ==
  /\ (pc = "exit" /\ Len(argv) = 2 /\ perm = "rw" /\ stderr = <<>>) =>
       /\ status = 0
       /\ fs[filename] = remove_inline_styles(original[filename])
       /\ \A f \in FileNames \ {filename} : fs[f] = original[f]
       /\ stdout = <<Updated(filename)>>
       /\ trace = <<"open_r", "read", "open_w", "write", "print">>
  /\ (Len(argv) = 2 /\ stdout # <<>>) =>
       /\ stdout = <<Updated(filename)>>
       /\ fs[filename] = remove_inline_styles(original[filename])

C4_Witness ==
  /\ pc = "exit"
  /\ status = 0
  /\ argv = <<Program, "b.html">>
  /\ original["b.html"] = "<div style=\"margin-top: 1em;\">"
  /\ fs["b.html"] = "<div class=\"mt-md\">"
  /\ fs["a.html"] = original["a.html"]
  /\ stdout = <<"Updated b.html">>

\* C5: with no argument, or with two or more, no file is opened, read or
\* written and no confirmation is printed; the run ends with the usage
\* message as its only output and exit status 1.
C5_WrongArgumentCount ==
  Len(argv) # 2 =>
    /\ trace = <<>>
    /\ fs = original
    /\ stderr = <<>>
    /\ \A n \in 1..Len(stdout) : stdout[n] = Usage
    /\ pc \in {"start", "exit"}
    /\ pc = "exit" => (stdout = <<Usage>> /\ status = 1)

C5_Witness ==
  /\ pc = "exit"
  /\ argv = <<Program, "a.html", "b.html">>
  /\ stdout = <<Usage>>
  /\ status = 1

\* C6: whichever file operation fails, or none, the file named holds at the
\* end of the run either its original content or the rewrite of it.
C6_AllOrNothing ==
  (pc = "exit" /\ Len(argv) = 2 /\ perm # "missing") =>
    fs[filename] \in {original[filename],
                      remove_inline_styles(original[filename])}

\* C7: a text put together from replacements only (class attributes, the
\* swatch class with its remaining style attribute), in any number and order,
\* is returned unchanged; and rewriting the result of rewriting one attribute
\* in a tag changes nothing any more.
C7_ConvertedIsFixed ==
  /\ (Called /\ Kinds(pieces) \subseteq {"converted"}) => output = input
  /\ phase = "again" => again = output

C7_Witness ==
  /\ phase = "again"
  /\ Len(pieces) = 2
  /\ pieces[1].text = SwatchClass("AABBCC")
  /\ pieces[2].text = " class=\"text-secondary mb-lg\""
  /\ output = input
  /\ again = input

\* the matches m and n, of the rules m[1] and n[1] at the positions m[2] and
\* n[2], share no character
Disjoint(m, n) ==
  \/ m[2] + MatchLen(replacements[m[1]]) <= n[2]
  \/ n[2] + MatchLen(replacements[n[1]]) <= m[2]

\* C8: in no text do matches of two different rules overlap or lie inside
\* one another; in a text of known fragments and quote-free filler the
\* matches are exactly the fragments, each matched by its own rule only, and
\* the result is the same when the table is walked in the reverse order.
C8_NoShadowing ==
  phase = "called" =>
    LET found == Matches(input)
    IN  /\ \A m, n \in found : m[1] # n[1] => Disjoint(m, n)
        /\ Interleaved =>
             /\ found = FragmentStarts(pieces)
             /\ ApplyFrom_reversed(1, input) = output

C8_Witness ==
  /\ phase = "called"
  /\ Len(pieces) = 2
  /\ pieces[1].text = " style=\"color: var(--text-secondary); margin-bottom: 1.5em;\""
  /\ pieces[2].text = " style=\"margin-bottom: 1em; color: var(--text-secondary);\""
  /\ output = " class=\"text-secondary mb-lg\" class=\"mb-md text-secondary\""

\* C9: in a text of known fragments and quote-free filler, in any number and
\* order, every fragment is replaced by its own rule's replacement, every
\* filler character is kept in place, and no known fragment is left.
C9_EveryOccurrence ==
  (Called /\ Interleaved) =>
    /\ output = Expected(pieces)
    /\ ~HasMatch(output)

C9_Witness ==
  /\ phase = "called"
  /\ Len(pieces) = 2
  /\ pieces[1].kind = "fragment"
  /\ pieces[2] = pieces[1]
  /\ output = pieces[1].becomes \o pieces[1].becomes
  /\ output # input

\* C10: for  style=" style="M"X"  with M the fragment of rule m and X the CSS
\* text of the literal rule x: when rule m removes its match and x comes
\* later in the table, the call returns x's replacement; when rule m removes
\* its match and x does not come later, the call returns the fragment of x
\* and a second call rewrites it; when rule m puts a class in the place of
\* its match, no known fragment comes into existence.
C10_SinglePass ==
  Called =>
    LET m == pieces[2].rule
        x == pieces[3].rule
    IN  /\ (m \in EmptyRules /\ x > m) => output = replacements[x].rep
        /\ (m \in EmptyRules /\ x <= m) =>
             /\ output = Fragment(x, "")
             /\ phase = "again" =>
                  (again = replacements[x].rep /\ again # output)
        /\ m \notin EmptyRules =>
             /\ output = AttrOpen \o pieces[2].becomes \o Css(x) \o Quote
             /\ ~HasMatch(output)
        /\ input = " style=\" style=\"display: block; cursor: pointer;\"color: red;\""
             => output = " class=\"text-error\""
        /\ input = " style=\" style=\"display: block; cursor: pointer;\"margin-top: 1em;\""
             => output = " style=\"margin-top: 1em;\""

C10_Witness ==
  /\ phase = "again"
  /\ input = " style=\" style=\"display: block; cursor: pointer;\"margin-top: 1em;\""
  /\ output = " style=\"margin-top: 1em;\""
  /\ again = " class=\"mt-md\""

====
